---- MODULE Spec2Model ----
(***************************************************************************)
(* HybridLogisticsHub: a relational Order Ledger (clientes, ordenes) and a *)
(* document Tracking Store (tracking), composed by HTTP handlers.  Every   *)
(* handler is modelled as the sequence of store round-trips it performs;   *)
(* handlers of different requests interleave between round-trips.          *)
(***************************************************************************)
EXTENDS Integers, Sequences, FiniteSets, TLC

(* ------------------------------ bounds --------------------------------- *)
MaxOrdenes == 2
MaxTracking == 2
MaxClock == 2
MaxClientes == MaxOrdenes + 1

(* Handlers in flight at once.  The routes/ handlers are plain functions,  *)
(* run in the server's thread pool; main.py's are coroutines, interleaved  *)
(* when the application runs in more than one server process.              *)
Workers == {"w1", "w2"}
Impls == {"main", "routes"}
Emails == {"a@x.com", "b@x.com"}
DatosCliente ==
  { [nombre |-> "Ana", telefono |-> "111", direccion |-> "Calle 1"],
    [nombre |-> "Luis", telefono |-> "222", direccion |-> "Calle 2"] }
DatosOrden ==
  [descripcion |-> "Paquete", direccion_origen |-> "Bodega", direccion_destino |-> "Calle 80"]

(* ------------------------- program constants --------------------------- *)
ESTADOS_ORDEN_VALIDOS ==
  <<"Pendiente", "En Proceso", "En Tránsito", "Entregado", "Cancelado">>
estados_validos ==
  <<"Pendiente", "En Proceso", "En Tránsito", "Entregado", "Cancelado">>
EstadosEntrada ==
  {"Pendiente", "En Proceso", "En Tránsito", "Entregado", "Cancelado",
   "entregado", "Enviado"}
NULL == "NULL"
EstadoInicial_nulo == NULL
(* INSERT INTO ordenes (..., estado, ...) with the literal "Pendiente" *)
EstadoInicial == "Pendiente"

Rango(s) == {s[i] : i \in DOMAIN s}

(* CHECK (estado IN (...)): a CHECK is satisfied when it evaluates to NULL *)
estado_valido(e) ==
  e = NULL \/ e \in {"Pendiente", "En Proceso", "En Tránsito", "Entregado", "Cancelado"}

email_sin_indice(cl, email) == TRUE

(* email VARCHAR(150) UNIQUE NOT NULL *)
email_unico(cl, email) == \A c \in cl : c.email # email


(* ------------------------------ workloads ------------------------------ *)
(* What the clients send in one run: which endpoints, with which inputs,   *)
(* and how many requests at once.                                          *)
Punto(latitud, longitud) == [latitud |-> latitud, longitud |-> longitud]

TodasOps ==
  {"crear_orden", "actualizar_estado", "registrar_tracking", "obtener_ubicacion",
   "busqueda_cercana", "eliminar_tracking"}

Ana == CHOOSE d \in DatosCliente : d.nombre = "Ana"

(* the order life cycle: every status value, valid or not *)
CargaEstados ==
  [nombre |-> "estados", ops |-> {"crear_orden", "actualizar_estado"}, concurrentes |-> 1, max_ordenes |-> MaxOrdenes, fallas |-> FALSE,
   emails |-> {"a@x.com"}, datos |-> {Ana},
   estados |-> EstadosEntrada, oids |-> 1..MaxOrdenes,
   puntos |-> {}, tss |-> {}, centros |-> {}, radios |-> {}]

(* customers: concurrent creations with equal and different emails *)
CargaClientes ==
  [nombre |-> "clientes", ops |-> {"crear_orden"}, concurrentes |-> 2,
   max_ordenes |-> MaxOrdenes, fallas |-> TRUE,
   emails |-> Emails, datos |-> DatosCliente,
   estados |-> {}, oids |-> {},
   puntos |-> {}, tss |-> {}, centros |-> {}, radios |-> {}]

(* deliveries: events of several orders, delivered and searched *)
CargaEntregas ==
  [nombre |-> "entregas",
   ops |-> {"crear_orden", "registrar_tracking", "actualizar_estado", "busqueda_cercana"},
   concurrentes |-> 1, max_ordenes |-> MaxOrdenes, fallas |-> FALSE,
   emails |-> {"a@x.com"}, datos |-> {Ana},
   estados |-> {"Entregado", "En Tránsito"}, oids |-> 1..MaxOrdenes,
   puntos |-> {Punto(4, -74)}, tss |-> {<<>>},
   centros |-> {Punto(4, -74)}, radios |-> {1000}]

(* reads: the events of one order, at two places and with given times *)
CargaLecturas ==
  [nombre |-> "lecturas",
   ops |-> TodasOps, concurrentes |-> 1, max_ordenes |-> 1, fallas |-> FALSE,
   emails |-> {"a@x.com"}, datos |-> {Ana},
   estados |-> {"Entregado"}, oids |-> {1, 2},
   puntos |-> {Punto(4, -74), Punto(6, -75)}, tss |-> {<<>>, <<0>>},
   centros |-> {Punto(4, -74)}, radios |-> {0, 1000}]

(* delivery racing with registration and with the proximity search *)
CargaCarrera ==
  [nombre |-> "carrera",
   ops |-> {"crear_orden", "actualizar_estado", "registrar_tracking", "busqueda_cercana"},
   concurrentes |-> 2, max_ordenes |-> MaxOrdenes, fallas |-> FALSE,
   emails |-> {"a@x.com"}, datos |-> {Ana},
   estados |-> {"Entregado"}, oids |-> {1},
   puntos |-> {Punto(4, -74)}, tss |-> {<<>>},
   centros |-> {Punto(4, -74)}, radios |-> {1000}]

(* storage failures at every round-trip of every handler *)
CargaFallos ==
  [nombre |-> "fallos", ops |-> TodasOps, concurrentes |-> 1,
   max_ordenes |-> 1, fallas |-> TRUE,
   emails |-> {"a@x.com"}, datos |-> {Ana},
   estados |-> {"Entregado", "Cancelado"}, oids |-> {1},
   puntos |-> {Punto(4, -74)}, tss |-> {<<>>},
   centros |-> {Punto(4, -74)}, radios |-> {1000}]

(* proximity queries at, inside and outside the limits of the parameters *)
CargaConsultas ==
  [nombre |-> "consultas",
   ops |-> {"crear_orden", "registrar_tracking", "busqueda_cercana"},
   concurrentes |-> 2, max_ordenes |-> 1, fallas |-> FALSE,
   emails |-> {"a@x.com"}, datos |-> {Ana},
   estados |-> {}, oids |-> {1},
   puntos |-> {Punto(90, 180)}, tss |-> {<<>>},
   centros |-> {Punto(90, 180), Punto(-90, -180), Punto(91, 0), Punto(-91, 0),
                Punto(0, 181), Punto(0, -181), Punto(4, -74)},
   radios |-> {-1, 0, 1, 1000}]

Cargas ==
  { CargaEstados, CargaClientes, CargaEntregas, CargaLecturas, CargaCarrera, CargaFallos,
    CargaConsultas }

(* ------------------------------ state ---------------------------------- *)
VARIABLES
  clientes,          \* committed rows of table clientes
  ordenes,           \* committed rows of table ordenes
  clientes_id_seq,   \* SERIAL sequence of clientes.id
  ordenes_id_seq,    \* SERIAL sequence of ordenes.id
  tracking,          \* documents of collection tracking, in insertion order
  tracking_id_seq,   \* number of ObjectIds generated so far
  clock,             \* wall clock (CURRENT_TIMESTAMP / datetime.utcnow())
  impl,              \* the deployed application: main.py or the routes package
  carga,             \* the client workload of this run (which requests, which inputs)
  req                \* per worker: the request being handled and its locals

vars == <<clientes, ordenes, clientes_id_seq, ordenes_id_seq, tracking,
          tracking_id_seq, clock, impl, carga, req>>

ledger == <<clientes, ordenes, clientes_id_seq, ordenes_id_seq>>
mongo == <<tracking, tracking_id_seq>>
entorno == <<impl, carga>>

NoResp == [code |-> 0]

Idle ==
  [op |-> "none", pc |-> "idle", conn |-> "none", oid |-> 0, estado |-> "",
   email |-> "", datos |-> <<>>, fila |-> <<>>, cliente_id |-> 0, orden_id |-> 0,
   tx_clientes |-> {}, tx_ordenes |-> {}, tx_start |-> 0,
   actualizado |-> FALSE, sync |-> <<>>, punto |-> <<>>, ts |-> <<>>,
   radio |-> 0, docs |-> <<>>, resp |-> NoResp]

Init ==
  /\ clientes = {}
  /\ ordenes = {}
  /\ clientes_id_seq = 0
  /\ ordenes_id_seq = 0
  /\ tracking = <<>>
  /\ tracking_id_seq = 0
  /\ clock = 0
  /\ impl \in Impls
  /\ carga \in Cargas
  /\ req = [w \in Workers |-> Idle]

(* A reading of the clock: every reading is later than the one before it,   *)
(* until the last instant the model distinguishes.                          *)
Ahora == {IF clock < MaxClock THEN clock + 1 ELSE clock}

Libre(w) == req[w].pc \in {"idle", "done"}
EnVuelo(op) == Cardinality({w \in Workers : req[w].op = op /\ ~Libre(w)})

(* A request is handed to the first free worker; a workload says how many  *)
(* requests may be in flight at once.                                      *)
Despachable(w, op) ==
  /\ Libre(w)
  /\ op \in carga.ops
  /\ \A v \in Workers : (v # w /\ Libre(v)) => w = "w1"
  /\ Cardinality({v \in Workers : ~Libre(v)}) < carga.concurrentes

(* The request a worker starts to handle *)
Peticion(op) == [Idle EXCEPT !.op = op]

(* The handler ends: its locals are gone, the request and the response it  *)
(* got remain.                                                             *)
Responder(r, resp) ==
  [r EXCEPT !.pc = "done", !.resp = resp, !.fila = <<>>, !.cliente_id = 0,
            !.orden_id = 0, !.tx_clientes = {}, !.tx_ordenes = {}, !.tx_start = 0,
            !.actualizado = FALSE, !.sync = <<>>, !.docs = <<>>]
(* ======================= POST /ordenes (crear_orden) =================== *)
buscar_sin_where(cl, email) ==
  IF cl = {} THEN <<>> ELSE <<CHOOSE c \in cl : TRUE>>

(* SELECT id, nombre FROM clientes WHERE email = %s; fetchone()             *)


buscar_por_email(cl, email) ==
  LET S == {c \in cl : c.email = email}
  IN IF S = {} THEN <<>> ELSE <<CHOOSE c \in S : TRUE>>

(* psycopg2.IntegrityError -> 400, any other psycopg2.Error -> 500; both   *)
(* after conn.rollback(), and conn.close() in the finally clause.          *)
codigo_error(exc) == IF exc = "IntegrityError" THEN 400 ELSE 500

FallaCrear(r, exc) ==
  Responder([r EXCEPT !.conn = IF r.conn = "none" THEN "none" ELSE "closed"],
            [code |-> codigo_error(exc), exc |-> exc])

(* get_postgres_connection(); SELECT id, nombre FROM clientes WHERE email  *)
crear_select(w) ==
  /\ Despachable(w, "crear_orden")
  /\ ordenes_id_seq + EnVuelo("crear_orden") < carga.max_ordenes
  /\ clientes_id_seq + EnVuelo("crear_orden") < MaxClientes
  /\ \E e \in carga.emails, d \in carga.datos :
       LET r == [Peticion("crear_orden") EXCEPT !.email = e, !.datos = <<d>>]
       IN \/ /\ carga.fallas
             /\ req' = [req EXCEPT ![w] = FallaCrear(r, "OperationalError")]
             /\ UNCHANGED clock
          \/ \E t \in Ahora :
               LET fila == buscar_por_email(clientes, e)
               IN /\ clock' = t
                  /\ req' = [req EXCEPT ![w] =
                       [r EXCEPT !.conn = "open", !.tx_start = t, !.fila = fila,
                          !.cliente_id = IF fila # <<>> THEN fila[1].id ELSE 0,
                          !.pc = IF fila # <<>> THEN "crear_ins_orden"
                                                ELSE "crear_ins_cliente"]]
  /\ UNCHANGED <<ledger, mongo, entorno>>

(* The unique index makes an INSERT wait for an uncommitted INSERT of the  *)
(* same email by another transaction.                                      *)
EsperaIndice(w) ==
  \E v \in Workers \ {w} : \E c \in req[v].tx_clientes : c.email = req[w].email

(* INSERT INTO clientes (nombre, email, telefono, direccion) RETURNING id  *)
crear_ins_cliente(w) ==
  /\ req[w].pc = "crear_ins_cliente"
  /\ \/ /\ carga.fallas
        /\ req' = [req EXCEPT ![w] = FallaCrear(req[w], "OperationalError")]
        /\ UNCHANGED clientes_id_seq
     \/ /\ ~EsperaIndice(w)
        /\ clientes_id_seq' = clientes_id_seq + 1
        /\ IF email_unico(clientes, req[w].email)
           THEN LET d == req[w].datos[1]
                    c == [id |-> clientes_id_seq + 1, email |-> req[w].email,
                          nombre |-> d.nombre, telefono |-> d.telefono,
                          direccion |-> d.direccion]
                IN req' = [req EXCEPT ![w] =
                     [req[w] EXCEPT !.tx_clientes = {c}, !.cliente_id = c.id,
                                    !.pc = "crear_ins_orden"]]
           ELSE req' = [req EXCEPT ![w] = FallaCrear(req[w], "IntegrityError")]
  /\ UNCHANGED <<clientes, ordenes, ordenes_id_seq, mongo, clock, entorno>>

fila_orden_en_proceso(id, cliente_id, estado, t) ==
  [id |-> id, cliente_id |-> cliente_id, estado |-> "En Proceso",
   descripcion |-> DatosOrden.descripcion,
   direccion_origen |-> DatosOrden.direccion_origen,
   direccion_destino |-> DatosOrden.direccion_destino,
   fecha_creacion |-> t, fecha_actualizacion |-> t]

(* OrdenesService.crear: INSERT INTO ordenes (...) VALUES (..., 'Pendiente', ...) *)
fila_orden(id, cliente_id, estado, t) ==
  [id |-> id, cliente_id |-> cliente_id, estado |-> estado,
   descripcion |-> DatosOrden.descripcion,
   direccion_origen |-> DatosOrden.direccion_origen,
   direccion_destino |-> DatosOrden.direccion_destino,
   fecha_creacion |-> t, fecha_actualizacion |-> t]

(* cliente_id INTEGER NOT NULL REFERENCES clientes(id) *)
fk_cliente(w, cliente_id) ==
  \E c \in clientes \cup req[w].tx_clientes : c.id = cliente_id

rollback_confirma(filas, tx) == filas \cup tx

(* if conn: conn.rollback(): the rows the transaction inserted are gone     *)
rollback(filas, tx) == filas

crear_ins_orden(w) ==
  /\ req[w].pc = "crear_ins_orden"
  /\ \/ /\ carga.fallas
        /\ req' = [req EXCEPT ![w] = FallaCrear(req[w], "OperationalError")]
        /\ clientes' = rollback(clientes, req[w].tx_clientes)
        /\ UNCHANGED ordenes_id_seq
     \/ /\ ordenes_id_seq' = ordenes_id_seq + 1
        /\ IF fk_cliente(w, req[w].cliente_id) /\ estado_valido(EstadoInicial)
           THEN LET o == fila_orden(ordenes_id_seq + 1, req[w].cliente_id,
                                    EstadoInicial, req[w].tx_start)
                IN /\ req' = [req EXCEPT ![w] =
                        [req[w] EXCEPT !.tx_ordenes = {o}, !.orden_id = o.id,
                                       !.pc = "crear_commit"]]
                   /\ UNCHANGED clientes
           ELSE /\ req' = [req EXCEPT ![w] = FallaCrear(req[w], "IntegrityError")]
                /\ clientes' = rollback(clientes, req[w].tx_clientes)
  /\ UNCHANGED <<ordenes, clientes_id_seq, mongo, clock, entorno>>

(* conn.commit(); return OrdenResponse(...); finally conn.close()          *)
crear_commit(w) ==
  /\ req[w].pc = "crear_commit"
  /\ \/ /\ carga.fallas
        /\ req' = [req EXCEPT ![w] = FallaCrear(req[w], "OperationalError")]
        /\ clientes' = rollback(clientes, req[w].tx_clientes)
        /\ ordenes' = rollback(ordenes, req[w].tx_ordenes)
     \/ /\ clientes' = clientes \cup req[w].tx_clientes
        /\ ordenes' = ordenes \cup req[w].tx_ordenes
        /\ req' = [req EXCEPT ![w] =
             Responder([req[w] EXCEPT !.conn = "closed"],
                       [code |-> 200, orden_id |-> req[w].orden_id,
                        cliente_id |-> req[w].cliente_id,
                        cliente_existente |-> req[w].fila # <<>>])]
  /\ UNCHANGED <<clientes_id_seq, ordenes_id_seq, mongo, clock, entorno>>


(* ============ PUT /ordenes/{orden_id}/estado (actualizar_estado_orden) == *)

OrdenPorId(ords, id) ==
  LET S == {o \in ords : o.id = id}
  IN IF S = {} THEN <<>> ELSE <<CHOOSE o \in S : TRUE>>

estado_aceptado_sin_caja(e) ==
  \E v \in Rango(ESTADOS_ORDEN_VALIDOS) : e \in {v, "entregado"}

(* if nuevo_estado not in ESTADOS_ORDEN_VALIDOS (routes) / estados_validos (main) *)
estado_aceptado(e) ==
  IF impl = "main" THEN e \in Rango(estados_validos)
                   ELSE e \in Rango(ESTADOS_ORDEN_VALIDOS)

siguiente_paso_sync_siempre(pc, estado) ==
  CASE pc = "estado_validar" -> "estado_update"
    [] pc = "estado_update" -> "estado_sync"
    [] OTHER -> "done"

siguiente_paso_sync_primero(pc, estado) ==
  CASE pc = "estado_validar" -> IF estado = "Entregado" THEN "estado_sync" ELSE "estado_update"
    [] pc = "estado_sync" -> "estado_update"
    [] OTHER -> "done"

(* The order of the handler's steps: validate, UPDATE and commit, then the  *)
(* synchronization when the new status is Entregado, then the response.     *)
siguiente_paso(pc, estado) ==
  CASE pc = "estado_validar" -> "estado_update"
    [] pc = "estado_update" -> IF estado = "Entregado" THEN "estado_sync" ELSE "done"
    [] OTHER -> "done"

(* The response; its "sincronizacion" entry is the result of the           *)
(* synchronization, absent (<<>>) when the new status is not Entregado.     *)
RespuestaEstado(r) ==
  [code |-> 200, orden_id |-> r.oid, nuevo_estado |-> r.estado,
   sincronizacion |-> r.sync]

Avanzar(r, paso) ==
  IF paso = "done"
  THEN Responder([r EXCEPT !.conn = IF r.conn = "none" THEN "none" ELSE "closed"],
                 RespuestaEstado(r))
  ELSE [r EXCEPT !.pc = paso]

estado_validar(w) ==
  /\ Despachable(w, "actualizar_estado")
  /\ \E id \in carga.oids, e \in carga.estados :
       LET r == [Peticion("actualizar_estado") EXCEPT !.oid = id, !.estado = e]
       IN req' = [req EXCEPT ![w] =
            IF estado_aceptado(e)
            THEN Avanzar(r, siguiente_paso("estado_validar", e))
            ELSE Responder(r, [code |-> 400, exc |-> "ValueError"])]
  /\ UNCHANGED <<ledger, mongo, clock, entorno>>

sql_update_sin_retroceso(ords, id, estado, t) ==
  {IF o.id = id /\ o.estado \notin {"Entregado", "Cancelado"}
   THEN [o EXCEPT !.estado = estado, !.fecha_actualizacion = t] ELSE o : o \in ords}

sql_update_solo_estado(ords, id, estado, t) ==
  {IF o.id = id THEN [o EXCEPT !.estado = estado] ELSE o : o \in ords}

(* UPDATE ordenes SET estado = %s, fecha_actualizacion = CURRENT_TIMESTAMP  *)
(* WHERE id = %s  -- one statement                                          *)
sql_update_estado(ords, id, estado, t) ==
  {IF o.id = id THEN [o EXCEPT !.estado = estado, !.fecha_actualizacion = t] ELSE o
     : o \in ords}

(* A psycopg2 error: main.py rolls back, answers 500 and closes the         *)
(* connection in its finally clause; OrdenesService.actualizar_estado has   *)
(* no handler, so the error surfaces as a 500 and the connection, when it   *)
(* was opened, is not closed.                                               *)
FallaEstado(r, exc, conectado) ==
  Responder([r EXCEPT !.conn = IF ~conectado THEN "none"
                                ELSE IF impl = "main" THEN "closed" ELSE "open"],
            [code |-> 500, exc |-> exc])

update_returning_no_entregada(ords, id) ==
  LET S == {o \in ords : o.id = id /\ o.estado # "Entregado"}
  IN IF S = {} THEN <<>> ELSE <<CHOOSE o \in S : TRUE>>

update_returning_siempre(ords, id) == <<[id |-> id]>>

(* ... WHERE id = %s RETURNING id; result = cursor.fetchone()               *)
update_returning(ords, id) == OrdenPorId(ords, id)

estado_update(w) ==
  /\ req[w].pc = "estado_update"
  /\ \/ /\ carga.fallas
        /\ \E conectado \in BOOLEAN :
             req' = [req EXCEPT ![w] = FallaEstado(req[w], "OperationalError", conectado)]
        /\ UNCHANGED <<ordenes, clock>>
     \/ \E t \in Ahora :
          /\ clock' = t
          /\ IF update_returning(ordenes, req[w].oid) = <<>>
             THEN /\ req' = [req EXCEPT ![w] =
                       Responder([req[w] EXCEPT !.conn = "closed"],
                                 [code |-> 404, exc |-> "HTTPException"])]
                  /\ UNCHANGED ordenes
             ELSE IF ~estado_valido(req[w].estado)
             THEN /\ req' = [req EXCEPT ![w] = FallaEstado(req[w], "IntegrityError", TRUE)]
                  /\ UNCHANGED ordenes
             ELSE /\ ordenes' = sql_update_estado(ordenes, req[w].oid, req[w].estado, t)
                  /\ req' = [req EXCEPT ![w] =
                       Avanzar([req[w] EXCEPT !.actualizado = TRUE,
                                  !.conn = IF impl = "main" THEN "open" ELSE "closed"],
                               siguiente_paso("estado_update", req[w].estado))]
  /\ UNCHANGED <<clientes, clientes_id_seq, ordenes_id_seq, mongo, entorno>>

update_many_conmuta(docs, id, t) ==
  [i \in DOMAIN docs |->
     IF docs[i].orden_id = id
     THEN [docs[i] EXCEPT !.activo = ~docs[i].activo, !.fecha_sincronizacion = <<t>>]
     ELSE docs[i]]

update_many_solo_fecha(docs, id, t) ==
  [i \in DOMAIN docs |->
     IF docs[i].orden_id = id
     THEN [docs[i] EXCEPT !.fecha_sincronizacion = <<t>>]
     ELSE docs[i]]

update_many_sin_filtro(docs, id, t) ==
  [i \in DOMAIN docs |->
     [docs[i] EXCEPT !.activo = FALSE, !.fecha_sincronizacion = <<t>>]]

(* tracking_collection.update_many({"orden_id": orden_id},                  *)
(*   {"$set": {"activo": False, "fecha_sincronizacion": datetime.utcnow()}}) *)
update_many_entregado(docs, id, t) ==
  [i \in DOMAIN docs |->
     IF docs[i].orden_id = id
     THEN [docs[i] EXCEPT !.activo = FALSE, !.fecha_sincronizacion = <<t>>]
     ELSE docs[i]]

modified_count(antes, despues) ==
  Cardinality({i \in DOMAIN antes : antes[i] # despues[i]})

sincronizar_falla_propaga(r) ==
  FallaEstado(r, "PyMongoError", TRUE)

(* except Exception as e: return {"error": str(e), "mensaje": ...}          *)
sincronizar_falla(r) ==
  Avanzar([r EXCEPT !.sync = <<[error |-> "PyMongoError"]>>],
          siguiente_paso("estado_sync", r.estado))

(* sincronizar_tracking_entregado: never raises; an exception of the store  *)
(* becomes the "error" entry of the result.                                 *)
estado_sync(w) ==
  /\ req[w].pc = "estado_sync"
  /\ \/ /\ carga.fallas
        /\ req' = [req EXCEPT ![w] = sincronizar_falla(req[w])]
        /\ UNCHANGED <<tracking, clock>>
     \/ \E t \in Ahora :
          LET nuevos == update_many_entregado(tracking, req[w].oid, t)
          IN /\ clock' = t
             /\ tracking' = nuevos
             /\ req' = [req EXCEPT ![w] =
                  Avanzar([req[w] EXCEPT !.sync =
                             <<[documentos_actualizados |-> modified_count(tracking, nuevos)]>>],
                          siguiente_paso("estado_sync", req[w].estado))]
  /\ UNCHANGED <<ledger, tracking_id_seq, entorno>>

(* ================ POST /tracking/{orden_id} (registrar_tracking) ======== *)

(* OrdenesService.verificar_existe / verificar_orden_existe: no handler for *)
(* a psycopg2 error, the connection is closed only on the normal path.      *)
PeticionTracking(id, p, ts) ==
  [Peticion("registrar_tracking") EXCEPT !.oid = id, !.punto = p, !.ts = ts]

verificar_existe_en_curso(ords, id) ==
  LET S == {o \in ords : o.id = id /\ o.estado \notin {"Entregado", "Cancelado"}}
  IN IF S = {} THEN <<>> ELSE <<CHOOSE o \in S : TRUE>>

verificar_existe_siempre(ords, id) == <<[id |-> id]>>

(* SELECT id, descripcion, estado FROM ordenes WHERE id = %s; fetchone()    *)
verificar_existe(ords, id) == OrdenPorId(ords, id)

RecibeTracking(w) ==
  /\ Despachable(w, "registrar_tracking")
  /\ tracking_id_seq + EnVuelo("registrar_tracking") < MaxTracking

tracking_verificar(w) ==
  /\ RecibeTracking(w)
  /\ \E id \in carga.oids, p \in carga.puntos, ts \in carga.tss :
       LET r == PeticionTracking(id, p, ts)
       IN req' = [req EXCEPT ![w] =
            IF verificar_existe(ordenes, id) = <<>>
            THEN Responder([r EXCEPT !.conn = "closed"],
                           [code |-> 404, exc |-> "HTTPException"])
            ELSE [r EXCEPT !.conn = "closed", !.pc = "tracking_insert"]]
  /\ UNCHANGED <<ledger, mongo, clock, entorno>>

tracking_verificar_falla(w) ==
  /\ RecibeTracking(w)
  /\ carga.fallas
  /\ \E id \in carga.oids, p \in carga.puntos, ts \in carga.tss, conectado \in BOOLEAN :
       req' = [req EXCEPT ![w] =
         Responder([PeticionTracking(id, p, ts) EXCEPT
                      !.conn = IF conectado THEN "open" ELSE "none"],
                   [code |-> 500, exc |-> "OperationalError"])]
  /\ UNCHANGED <<ledger, mongo, clock, entorno>>

documento_lat_lng(id, orden_id, latitud, longitud, t) ==
  [id |-> id, orden_id |-> orden_id,
   ubicacion |-> [type |-> "Point", coordinates |-> <<latitud, longitud>>],
   timestamp |-> t, activo |-> TRUE, fecha_sincronizacion |-> <<>>]

(* TrackingService.registrar: "coordinates": [longitud, latitud],           *)
(* "timestamp": timestamp or datetime.utcnow(), "activo": True              *)
documento(id, orden_id, latitud, longitud, t) ==
  [id |-> id, orden_id |-> orden_id,
   ubicacion |-> [type |-> "Point", coordinates |-> <<longitud, latitud>>],
   timestamp |-> t, activo |-> TRUE, fecha_sincronizacion |-> <<>>]

tracking_insert(w) ==
  /\ req[w].pc = "tracking_insert"
  /\ \/ /\ carga.fallas
        /\ req' = [req EXCEPT ![w] =
             Responder(req[w], [code |-> 500, exc |-> "PyMongoError"])]
        /\ UNCHANGED <<mongo, clock>>
     \/ \E t \in (IF req[w].ts = <<>> THEN Ahora ELSE {clock}) :
          LET doc == documento(tracking_id_seq + 1, req[w].oid,
                               req[w].punto.latitud, req[w].punto.longitud,
                               IF req[w].ts = <<>> THEN t ELSE req[w].ts[1])
          IN /\ clock' = t
             /\ tracking' = Append(tracking, doc)
             /\ tracking_id_seq' = tracking_id_seq + 1
             /\ req' = [req EXCEPT ![w] =
                  Responder(req[w], [code |-> 200, tracking_id |-> doc.id,
                                     orden_id |-> req[w].oid])]
  /\ UNCHANGED <<ledger, entorno>>

(* ============ GET /ordenes/{orden_id}/ubicacion (obtener_ubicacion_orden) *)

(* SELECT ... FROM ordenes o JOIN clientes c ON o.cliente_id = c.id WHERE o.id = %s *)
obtener_con_cliente(ords, cls, id) ==
  LET S == {<<o, c>> \in ords \X cls : o.id = id /\ o.cliente_id = c.id}
  IN IF S = {} THEN <<>>
     ELSE LET oc == CHOOSE x \in S : TRUE
          IN <<[id |-> oc[1].id, estado |-> oc[1].estado,
                fecha_creacion |-> oc[1].fecha_creacion,
                fecha_actualizacion |-> oc[1].fecha_actualizacion,
                cliente |-> [id |-> oc[2].id, nombre |-> oc[2].nombre,
                             email |-> oc[2].email]]>>

ubicacion_orden(w) ==
  /\ Despachable(w, "obtener_ubicacion")
  /\ \E id \in carga.oids :
       LET r == [Peticion("obtener_ubicacion") EXCEPT !.oid = id]
           orden_data == obtener_con_cliente(ordenes, clientes, id)
       IN req' = [req EXCEPT ![w] =
            IF orden_data = <<>>
            THEN Responder([r EXCEPT !.conn = "closed"],
                           [code |-> 404, exc |-> "HTTPException"])
            ELSE [r EXCEPT !.conn = "closed", !.fila = orden_data,
                           !.pc = "ubicacion_tracking"]]
  /\ UNCHANGED <<ledger, mongo, clock, entorno>>

ubicacion_orden_falla(w) ==
  /\ Despachable(w, "obtener_ubicacion")
  /\ carga.fallas
  /\ \E id \in carga.oids, conectado \in BOOLEAN :
       req' = [req EXCEPT ![w] =
         Responder([Peticion("obtener_ubicacion") EXCEPT !.oid = id,
                      !.conn = IF ~conectado THEN "none"
                               ELSE IF impl = "main" THEN "closed" ELSE "open"],
                   [code |-> 500, exc |-> "OperationalError"])]
  /\ UNCHANGED <<ledger, mongo, clock, entorno>>

Maximo(S) == CHOOSE x \in S : \A y \in S : y <= x

find_one_ultimo_activo(docs, id) ==
  LET D == {docs[i] : i \in {j \in DOMAIN docs : docs[j].orden_id = id /\ docs[j].activo}}
  IN {d \in D : d.timestamp = Maximo({e.timestamp : e \in D})}

find_one_sin_orden(docs, id) ==
  LET I == {j \in DOMAIN docs : docs[j].orden_id = id}
  IN {docs[i] : i \in {j \in I : \A k \in I : j <= k}}

(* find_one({"orden_id": orden_id}, sort=[("timestamp", -1)]): the documents *)
(* it may return; equal timestamps leave the choice to the store.            *)
find_one_ultimo(docs, id) ==
  LET D == {docs[i] : i \in {j \in DOMAIN docs : docs[j].orden_id = id}}
  IN {d \in D : d.timestamp = Maximo({e.timestamp : e \in D})}

(* "latitud": coords[1], "longitud": coords[0] *)
ultima_ubicacion(doc) ==
  [latitud |-> doc.ubicacion.coordinates[2],
   longitud |-> doc.ubicacion.coordinates[1],
   timestamp |-> doc.timestamp, activo |-> doc.activo]

RespuestaUbicacion(r, ubic) ==
  Responder(r, [code |-> 200, orden |-> r.fila, ultima_ubicacion |-> ubic])

(* main.py catches every exception of the lookup and answers with           *)
(* ultima_ubicacion = None; TrackingService.obtener_ultima_ubicacion and    *)
(* its route have no handler.                                               *)
ubicacion_tracking_falla(r) ==
  IF impl = "main" THEN RespuestaUbicacion(r, <<>>)
  ELSE Responder(r, [code |-> 500, exc |-> "PyMongoError"])

ubicacion_tracking(w) ==
  /\ req[w].pc = "ubicacion_tracking"
  /\ \/ /\ carga.fallas
        /\ req' = [req EXCEPT ![w] = ubicacion_tracking_falla(req[w])]
     \/ LET D == find_one_ultimo(tracking, req[w].oid)
        IN IF D = {}
           THEN req' = [req EXCEPT ![w] = RespuestaUbicacion(req[w], <<>>)]
           ELSE \E d \in D :
                  req' = [req EXCEPT ![w] =
                            RespuestaUbicacion(req[w], <<ultima_ubicacion(d)>>)]
  /\ UNCHANGED <<ledger, mongo, clock, entorno>>

(* ==================== DELETE /tracking/{orden_id} ====================== *)

delete_many_todo(docs, id) == <<>>

(* tracking_collection.delete_many({"orden_id": orden_id}) *)
delete_many(docs, id) == SelectSeq(docs, LAMBDA d : d.orden_id # id)

eliminar(w) ==
  /\ Despachable(w, "eliminar_tracking")
  /\ \E id \in carga.oids :
       LET r == [Peticion("eliminar_tracking") EXCEPT !.oid = id]
       IN \/ /\ carga.fallas
             /\ req' = [req EXCEPT ![w] =
                  Responder(r, [code |-> 500, exc |-> "PyMongoError"])]
             /\ UNCHANGED tracking
          \/ LET quedan == delete_many(tracking, id)
                 deleted_count == Len(tracking) - Len(quedan)
             IN /\ tracking' = quedan
                /\ req' = [req EXCEPT ![w] =
                     IF deleted_count = 0
                     THEN Responder(r, [code |-> 404, exc |-> "HTTPException"])
                     ELSE Responder(r, [code |-> 200, orden_id |-> id,
                                        registros_eliminados |-> deleted_count])]
  /\ UNCHANGED <<ledger, tracking_id_seq, clock, entorno>>

(* ================= GET /busqueda-cercana (busqueda_cercana) ============ *)

consulta_valida_radio_cero(latitud, longitud, radio_metros) ==
  /\ latitud >= -90 /\ latitud <= 90
  /\ longitud >= -180 /\ longitud <= 180
  /\ radio_metros >= 0

(* Query(..., ge=-90, le=90), Query(..., ge=-180, le=180), Query(1000, gt=0) *)
consulta_valida(latitud, longitud, radio_metros) ==
  /\ latitud >= -90 /\ latitud <= 90
  /\ longitud >= -180 /\ longitud <= 180
  /\ radio_metros > 0

cercana_validar(w) ==
  /\ Despachable(w, "busqueda_cercana")
  /\ \E c \in carga.centros, radio \in carga.radios :
       LET r == [Peticion("busqueda_cercana") EXCEPT !.punto = c, !.radio = radio]
       IN req' = [req EXCEPT ![w] =
            IF consulta_valida(c.latitud, c.longitud, radio)
            THEN [r EXCEPT !.pc = "cercana_mongo"]
            ELSE Responder(r, [code |-> 422, exc |-> "RequestValidationError"])]
  /\ UNCHANGED <<ledger, mongo, clock, entorno>>

Abs(x) == IF x < 0 THEN -x ELSE x

(* $nearSphere with $maxDistance in metres over GeoJSON [lng, lat] points:  *)
(* the distance of two points a few degrees apart, in squared degrees; one  *)
(* degree of arc is about 111 km.                                           *)
KmPorGrado == 111

distancia2(coords, centro) ==
  LET dlat == Abs(coords[2] - centro[2])
      d == Abs(coords[1] - centro[1])
      dlng == IF d > 180 THEN 360 - d ELSE d
  IN dlat * dlat + dlng * dlng

coincide_sin_activo(doc, centro, radio_metros) ==
  KmPorGrado * KmPorGrado * distancia2(doc.ubicacion.coordinates, centro)
    <= (radio_metros * radio_metros) \div (1000 * 1000)

(* {"activo": True, "ubicacion": {"$nearSphere": {..., "$maxDistance": radio_metros}}} *)
coincide(doc, centro, radio_metros) ==
  /\ doc.activo = TRUE
  /\ KmPorGrado * KmPorGrado * distancia2(doc.ubicacion.coordinates, centro)
       <= (radio_metros * radio_metros) \div (1000 * 1000)

(* list(tracking_collection.find(query)): nearest first, equal distances in *)
(* an order the store chooses.                                              *)
find_cercanos(docs, longitud, latitud, radio_metros) ==
  LET centro == <<longitud, latitud>>
      I == {i \in DOMAIN docs : coincide(docs[i], centro, radio_metros)}
      n == Cardinality(I)
      dist(i) == distancia2(docs[i].ubicacion.coordinates, centro)
  IN {[k \in 1..n |-> docs[s[k]]] :
        s \in {f \in [1..n -> I] :
                 /\ \A a, b \in 1..n : a < b => f[a] # f[b] /\ dist(f[a]) <= dist(f[b])}}

ordenes_info_otra_clave(ords, ids, id) ==
  LET S == {o \in ords : o.id \in ids}
  IN IF S = {} THEN <<>>
     ELSE LET o == CHOOSE x \in S : TRUE
          IN <<[descripcion |-> o.descripcion, estado |-> o.estado,
                direccion_destino |-> o.direccion_destino]>>

(* SELECT id, descripcion, estado, direccion_destino FROM ordenes WHERE id = ANY(%s); *)
(* ordenes_info.get(doc["orden_id"], {}): <<>> stands for the empty object   *)
ordenes_info(ords, ids, id) ==
  LET S == {o \in ords : o.id = id /\ o.id \in ids}
  IN IF S = {} THEN <<>>
     ELSE LET o == CHOOSE x \in S : TRUE
          IN <<[descripcion |-> o.descripcion, estado |-> o.estado,
                direccion_destino |-> o.direccion_destino]>>

resultado(doc, info) ==
  [orden_id |-> doc.orden_id,
   ubicacion |-> [latitud |-> doc.ubicacion.coordinates[2],
                  longitud |-> doc.ubicacion.coordinates[1]],
   timestamp |-> doc.timestamp, orden_info |-> info]

RespuestaCercana(r, resultados) ==
  Responder(r, [code |-> 200, ordenes_encontradas |-> Len(resultados),
                resultados |-> resultados])

cercana_mongo(w) ==
  /\ req[w].pc = "cercana_mongo"
  /\ \/ /\ carga.fallas
        /\ req' = [req EXCEPT ![w] =
             Responder(req[w], [code |-> 500, exc |-> "PyMongoError"])]
     \/ \E resultados_mongo \in
            find_cercanos(tracking, req[w].punto.longitud, req[w].punto.latitud,
                          req[w].radio) :
          req' = [req EXCEPT ![w] =
            IF resultados_mongo = <<>>
            THEN RespuestaCercana(req[w], <<>>)
            ELSE [req[w] EXCEPT !.docs = resultados_mongo, !.pc = "cercana_pg"]]
  /\ UNCHANGED <<ledger, mongo, clock, entorno>>

cercana_pg(w) ==
  /\ req[w].pc = "cercana_pg"
  /\ \/ /\ carga.fallas
        /\ req' = [req EXCEPT ![w] =
             Responder(req[w], [code |-> 500, exc |-> "OperationalError"])]
     \/ LET docs == req[w].docs
            ordenes_ids == {docs[i].orden_id : i \in DOMAIN docs}
        IN req' = [req EXCEPT ![w] =
             RespuestaCercana([req[w] EXCEPT !.conn = "closed"],
               [i \in DOMAIN docs |->
                  resultado(docs[i], ordenes_info(ordenes, ordenes_ids, docs[i].orden_id))])]
  /\ UNCHANGED <<ledger, mongo, clock, entorno>>

(* ============================ the system =============================== *)

Next ==
  \E w \in Workers :
    \/ crear_select(w)
    \/ crear_ins_cliente(w)
    \/ crear_ins_orden(w)
    \/ crear_commit(w)
    \/ estado_validar(w)
    \/ estado_update(w)
    \/ estado_sync(w)
    \/ tracking_verificar(w)
    \/ tracking_verificar_falla(w)
    \/ tracking_insert(w)
    \/ ubicacion_orden(w)
    \/ ubicacion_orden_falla(w)
    \/ ubicacion_tracking(w)
    \/ eliminar(w)
    \/ cercana_validar(w)
    \/ cercana_mongo(w)
    \/ cercana_pg(w)

Spec == Init /\ [][Next]_vars

(* The two stores are separate databases and the tracking store has no      *)
(* foreign key: it may hold an event of an order whose row is gone from the *)
(* ledger (rows removed in the ledger itself, ON DELETE CASCADE).  This     *)
(* specification starts with one such event, at the place the clients       *)
(* report and query, under the workloads that search.                       *)
OrdenHuerfana == MaxOrdenes + 1

(* erasing: the events of an order of the ledger and those of the order    *)
(* without a row                                                            *)
CargaBorrado ==
  [nombre |-> "borrado",
   ops |-> {"crear_orden", "registrar_tracking", "eliminar_tracking"},
   concurrentes |-> 1, max_ordenes |-> 1, fallas |-> FALSE,
   emails |-> {"a@x.com"}, datos |-> {Ana},
   estados |-> {}, oids |-> {1, OrdenHuerfana},
   puntos |-> {Punto(4, -74)}, tss |-> {<<>>},
   centros |-> {}, radios |-> {}]

CargasHuerfanos == {CargaCarrera, CargaFallos, CargaBorrado}

InitHuerfanos ==
  /\ clientes = {}
  /\ ordenes = {}
  /\ clientes_id_seq = 0
  /\ ordenes_id_seq = 0
  /\ tracking = <<documento(MaxTracking + 1, OrdenHuerfana, 4, -74, 0)>>
  /\ tracking_id_seq = 0
  /\ clock = 0
  /\ impl \in Impls
  /\ carga \in CargasHuerfanos
  /\ req = [w \in Workers |-> Idle]

SpecHuerfanos == InitHuerfanos /\ [][Next]_vars

(* ============================== properties ============================= *)

CincoEstados == {"Pendiente", "En Proceso", "En Tránsito", "Entregado", "Cancelado"}

(* worker w takes the step that leaves program point pc *)
Paso(w, pc) == req[w].pc = pc /\ req'[w] # req[w]
(* ... and the handler ends with it *)
Termina(w, pc) == Paso(w, pc) /\ req'[w].pc = "done"
(* worker w starts to handle a request of endpoint op *)
Recibe(w, op) == Libre(w) /\ req'[w] # req[w] /\ req'[w].op = op

SyncSinError(resp) ==
  /\ resp.code = 200
  /\ resp.sincronizacion # <<>>
  /\ "error" \notin DOMAIN resp.sincronizacion[1]

DocsDe(docs, id) == {d \in Rango(docs) : d.orden_id = id}

(* C1: when the status update to Entregado ends with a synchronization that *)
(* reports no error, every tracking event of that order is inactive, and no *)
(* event of another order has changed.                                      *)
C1_EntregaDesactivaSoloLaOrden ==
  [][/\ \A w \in Workers :
       (Termina(w, "estado_sync") /\ SyncSinError(req'[w].resp)) =>
         /\ \A d \in DocsDe(tracking', req[w].oid) : d.activo = FALSE
         /\ Len(tracking') = Len(tracking)
         /\ \A i \in DOMAIN tracking :
              tracking[i].orden_id # req[w].oid => tracking'[i] = tracking[i]
     /\ \A w \in Workers :
          (Recibe(w, "actualizar_estado") \/ Paso(w, "estado_update")) =>
            tracking' = tracking]_vars

C1_Testigo ==
  \E w \in Workers :
    /\ req[w].pc = "done" /\ req[w].op = "actualizar_estado"
    /\ SyncSinError(req[w].resp)
    /\ req[w].resp.sincronizacion[1].documentos_actualizados >= 1
    /\ \E d \in Rango(tracking) : d.orden_id = req[w].oid /\ ~d.activo
    /\ \E d \in Rango(tracking) : d.orden_id # req[w].oid /\ d.activo

(* C2: the documents the proximity query returns are documents of the       *)
(* tracking store whose activo flag is true when the store is queried.      *)
C2_CercanosSoloActivos ==
  [][\A w \in Workers :
       Paso(w, "cercana_mongo") =>
         /\ \A i \in DOMAIN req'[w].docs :
              \E j \in DOMAIN tracking :
                tracking[j] = req'[w].docs[i] /\ tracking[j].activo = TRUE
         /\ (req'[w].pc = "done" /\ req'[w].resp.code = 200) =>
              req'[w].resp.resultados = <<>>]_vars

EnRadio(doc, r) ==
  distancia2(doc.ubicacion.coordinates, <<r.punto.longitud, r.punto.latitud>>) = 0

C2_Testigo ==
  \E w \in Workers :
    /\ req[w].pc = "cercana_pg"
    /\ req[w].docs # <<>>
    /\ \E d \in Rango(tracking) : ~d.activo /\ EnRadio(d, req[w])

(* C3: whatever the synchronization does, the status update to Entregado    *)
(* answers 200 and the ledger is as the update left it; when events of the  *)
(* order are still active after it, the response carries a synchronization  *)
(* result with an error, and the order is still Entregado.                  *)
C3_FalloDeSyncNoRevierte ==
  [][\A w \in Workers :
       Paso(w, "estado_sync") =>
         /\ req'[w].pc = "done"
         /\ req'[w].resp.code = 200
         /\ req'[w].resp.sincronizacion # <<>>
         /\ ordenes' = ordenes
         /\ (\E d \in DocsDe(tracking', req[w].oid) : d.activo) =>
              /\ "error" \in DOMAIN req'[w].resp.sincronizacion[1]
              /\ tracking' = tracking
         /\ (\A v \in Workers \ {w} : req[v].op # "actualizar_estado") =>
              \E o \in ordenes' : o.id = req[w].oid /\ o.estado = "Entregado"]_vars

C3_Testigo ==
  \E w \in Workers :
    /\ req[w].pc = "done" /\ req[w].op = "actualizar_estado"
    /\ req[w].resp.code = 200
    /\ req[w].resp.sincronizacion # <<>>
    /\ "error" \in DOMAIN req[w].resp.sincronizacion[1]
    /\ \E o \in ordenes : o.id = req[w].oid /\ o.estado = "Entregado"
    /\ \E d \in DocsDe(tracking, req[w].oid) : d.activo

(* C4: the synchronization is attempted only by a handler whose UPDATE is   *)
(* committed, a 200 answer to Entregado comes from the synchronization step *)
(* of the same handler, and nothing else ever modifies a stored event.      *)
C4_SyncTrasCommitYEnLaLlamada ==
  [][/\ \A w \in Workers :
          /\ req'[w].pc = "estado_sync" =>
               /\ req'[w].actualizado
               /\ req'[w].estado = "Entregado"
               /\ \E o \in ordenes' : o.id = req'[w].oid
          /\ ( /\ req'[w] # req[w] /\ req'[w].pc = "done"
               /\ req'[w].op = "actualizar_estado"
               /\ req'[w].resp.code = 200 /\ req'[w].estado = "Entregado" ) =>
               /\ req[w].pc = "estado_sync"
               /\ req'[w].resp.sincronizacion # <<>>
     /\ (\E d \in Rango(tracking), e \in Rango(tracking') : d.id = e.id /\ d # e) =>
          \E w \in Workers : Termina(w, "estado_sync") /\ req[w].actualizado]_vars

C4_Testigo ==
  \E w \in Workers :
    /\ req[w].pc = "estado_sync"
    /\ req[w].actualizado
    /\ \E o \in ordenes : o.id = req[w].oid /\ o.estado = "Entregado"
    /\ \E d \in DocsDe(tracking, req[w].oid) : d.activo

(* C5: for an existing order the tracking lookup of the federated read      *)
(* always ends with a 200 answer that carries the order, in both            *)
(* implementations.                                                         *)
C5_UbicacionDegradaSiempre ==
  [][\A w \in Workers :
       Paso(w, "ubicacion_tracking") =>
         /\ req'[w].pc = "done"
         /\ req'[w].resp.code = 200
         /\ req'[w].resp.orden = req[w].fila]_vars

FilasConEmail(cl, email) == {c \in cl : c.email = email}

(* C6: a successful create_order leaves exactly one customer row with the   *)
(* request's email; the new order and the response carry that row's id; a   *)
(* reused row is the row that was there, a new row has the supplied fields; *)
(* no step ever changes or removes a customer row, so the fields stay those *)
(* of the first creation.                                                   *)
C6_ClienteReutilizadoPorEmail ==
  [][/\ clientes \subseteq clientes'
     /\ \A w \in Workers :
          (Termina(w, "crear_commit") /\ req'[w].resp.code = 200) =>
            LET S == FilasConEmail(clientes', req[w].email)
                resp == req'[w].resp
            IN /\ Cardinality(S) = 1
               /\ \A c \in S :
                    /\ c.id = resp.cliente_id
                    /\ \E o \in ordenes' \ ordenes :
                         o.id = resp.orden_id /\ o.cliente_id = c.id
                    /\ resp.cliente_existente => c \in clientes
                    /\ ~resp.cliente_existente =>
                         /\ c \notin clientes
                         /\ c.nombre = req[w].datos[1].nombre
                         /\ c.telefono = req[w].datos[1].telefono
                         /\ c.direccion = req[w].datos[1].direccion]_vars

C6_Testigo ==
  \E w \in Workers :
    /\ req[w].pc = "done" /\ req[w].op = "crear_orden"
    /\ req[w].resp.code = 200 /\ req[w].resp.cliente_existente
    /\ \E c \in clientes :
         /\ c.email = req[w].email
         /\ c.id = req[w].resp.cliente_id
         /\ c.nombre # req[w].datos[1].nombre
         /\ Cardinality({o \in ordenes : o.cliente_id = c.id}) = 2

(* C7: no two committed customer rows share an email; a create_order that   *)
(* fails leaves the ledger as it was, with nothing pending and the          *)
(* connection closed; it answers 400 exactly when the INSERT of the         *)
(* customer met a committed row with the same email, and 500 otherwise.     *)
C7_CarreraDeCreacion ==
  [][/\ \A c, d \in clientes' : c.email = d.email => c = d
     /\ \A w \in Workers :
          ( /\ req'[w] # req[w] /\ req'[w].op = "crear_orden"
            /\ req'[w].pc = "done" /\ req'[w].resp.code # 200 ) =>
            /\ clientes' = clientes /\ ordenes' = ordenes
            /\ req'[w].tx_clientes = {} /\ req'[w].tx_ordenes = {}
            /\ req'[w].conn # "open"
            /\ req'[w].resp.code = IF req'[w].resp.exc = "IntegrityError" THEN 400 ELSE 500
            /\ req'[w].resp.exc = "IntegrityError" =>
                 /\ req[w].pc = "crear_ins_cliente"
                 /\ FilasConEmail(clientes, req[w].email) # {}
     /\ \A w \in Workers :
          (Paso(w, "crear_ins_cliente") /\ FilasConEmail(clientes, req[w].email) # {}) =>
            req'[w].pc = "done" /\ req'[w].resp.code \in {400, 500}]_vars

C7_Testigo ==
  \E w, v \in Workers :
    /\ w # v
    /\ req[w].pc = "done" /\ req[w].op = "crear_orden" /\ req[w].resp.code = 400
    /\ req[v].pc = "done" /\ req[v].op = "crear_orden" /\ req[v].resp.code = 200
    /\ req[v].email = req[w].email
    /\ ~req[v].resp.cliente_existente
    /\ Cardinality(FilasConEmail(clientes, req[w].email)) = 1
    /\ Cardinality(ordenes) = 1

(* C8: a status update request with one of the five values goes on to the   *)
(* UPDATE; with any other value it ends at once with 400, no connection     *)
(* opened and both stores unchanged; a 400 is given to no valid value.      *)
C8_ValidacionDeEstado ==
  [][\A w \in Workers :
       Recibe(w, "actualizar_estado") =>
         IF req'[w].estado \in CincoEstados
         THEN req'[w].pc = "estado_update" /\ req'[w].resp = NoResp
         ELSE /\ req'[w].pc = "done"
              /\ req'[w].resp.code = 400
              /\ req'[w].conn = "none"
              /\ ledger' = ledger
              /\ mongo' = mongo]_vars

C8_Testigo ==
  \E w \in Workers :
    /\ req[w].pc = "done" /\ req[w].op = "actualizar_estado"
    /\ req[w].resp.code = 400
    /\ req[w].estado = "entregado"
    /\ \E o \in ordenes : o.id = req[w].oid

(* C9: every order row, committed or pending in a transaction, has one of   *)
(* the five status values.                                                  *)
C9_EstadoSiempreValido ==
  /\ \A o \in ordenes : o.estado \in CincoEstados
  /\ \A w \in Workers : \A o \in req[w].tx_ordenes : o.estado \in CincoEstados

C9_Testigo ==
  /\ \E o \in ordenes : o.estado = "Pendiente"
  /\ \E o \in ordenes : o.estado = "Cancelado"
  /\ \E w \in Workers : req[w].op = "actualizar_estado" /\ req[w].pc = "done"
                        /\ req[w].resp.code = 400

ExitoUpdate(w) ==
  /\ Paso(w, "estado_update")
  /\ \/ req'[w].pc = "estado_sync"
     \/ req'[w].pc = "done" /\ req'[w].resp.code = 200

(* C10: a successful status update replaces the order's row by the same row *)
(* with the new status and the current time as last-updated, in one step,   *)
(* and leaves every other row alone; no step changes an existing row in any *)
(* other way.                                                               *)
C10_EstadoYFechaJuntos ==
  [][/\ \A w \in Workers :
          ExitoUpdate(w) =>
            /\ \E o \in ordenes : o.id = req[w].oid
            /\ ordenes' =
                 {IF o.id = req[w].oid
                  THEN [o EXCEPT !.estado = req[w].estado, !.fecha_actualizacion = clock']
                  ELSE o : o \in ordenes}
     /\ \A o \in ordenes :
          o \notin ordenes' =>
            \E w \in Workers :
              /\ ExitoUpdate(w) /\ req[w].oid = o.id
              /\ [o EXCEPT !.estado = req[w].estado, !.fecha_actualizacion = clock']
                   \in ordenes']_vars

C10_Testigo ==
  \E w \in Workers :
    /\ req[w].pc = "done" /\ req[w].op = "actualizar_estado"
    /\ req[w].resp.code = 200 /\ req[w].estado = "Pendiente"
    /\ \E o \in ordenes :
         /\ o.id = req[w].oid /\ o.estado = "Pendiente"
         /\ o.fecha_actualizacion > o.fecha_creacion
    /\ \E o \in ordenes : o.id # req[w].oid /\ o.estado = "Cancelado"

Activos(docs, id) == {i \in DOMAIN docs : docs[i].orden_id = id /\ docs[i].activo}

(* C11: of the tracking events of one order at most one is active, and it   *)
(* is the one inserted last.                                                *)
C11_UnSoloActivoElUltimo ==
  \A id \in 1..MaxOrdenes :
    /\ Cardinality(Activos(tracking, id)) <= 1
    /\ \A i \in Activos(tracking, id) :
         \A j \in DOMAIN tracking : tracking[j].orden_id = id => j <= i

(* C12: end to end.  A delivery whose synchronization reports no error      *)
(* leaves the order without active events; only a later registration for    *)
(* the order gives it an active event again; and a proximity query made     *)
(* while the order has no active event returns no result for it, wherever   *)
(* it is centred.                                                           *)
C12_EntregadaNoAparece ==
  [][/\ \A w \in Workers :
          (Termina(w, "estado_sync") /\ SyncSinError(req'[w].resp)) =>
            Activos(tracking', req[w].oid) = {}
     /\ \A id \in 1..MaxOrdenes :
          (Activos(tracking, id) = {} /\ Activos(tracking', id) # {}) =>
            \E w \in Workers :
              /\ Termina(w, "tracking_insert")
              /\ req[w].oid = id /\ req'[w].resp.code = 200
     /\ \A w \in Workers :
          Paso(w, "cercana_mongo") =>
            \A id \in 1..MaxOrdenes :
              Activos(tracking, id) = {} =>
                \A i \in DOMAIN req'[w].docs : req'[w].docs[i].orden_id # id
     /\ \A w \in Workers :
          (Termina(w, "cercana_pg") /\ req'[w].resp.code = 200) =>
            \A i \in DOMAIN req'[w].resp.resultados :
              \E j \in DOMAIN req[w].docs :
                req[w].docs[j].orden_id = req'[w].resp.resultados[i].orden_id]_vars

C12_Testigo ==
  \E w \in Workers :
    /\ req[w].pc = "done" /\ req[w].op = "busqueda_cercana"
    /\ req[w].resp.code = 200 /\ req[w].resp.resultados = <<>>
    /\ \E o \in ordenes :
         /\ o.estado = "Entregado"
         /\ Cardinality(DocsDe(tracking, o.id)) >= 2
         /\ \A d \in DocsDe(tracking, o.id) :
              ~d.activo /\ d.fecha_sincronizacion # <<>> /\ EnRadio(d, req[w])

(* C13: the federated read answers with the event of the order that has the *)
(* greatest timestamp among the stored ones, and with no location when the  *)
(* order has no event; while the tracking store answers, an order with      *)
(* events always gets a location.                                           *)
C13_UltimaUbicacionEsLaMasReciente ==
  [][\A w \in Workers :
       (Termina(w, "ubicacion_tracking") /\ req'[w].resp.code = 200) =>
         LET ubic == req'[w].resp.ultima_ubicacion
             D == DocsDe(tracking, req[w].oid)
         IN /\ D = {} => ubic = <<>>
            /\ ubic # <<>> =>
                 \E d \in D :
                   /\ \A e \in D : e.timestamp <= d.timestamp
                   /\ ubic[1].timestamp = d.timestamp
                   /\ ubic[1].latitud = d.ubicacion.coordinates[2]
                   /\ ubic[1].longitud = d.ubicacion.coordinates[1]
                   /\ ubic[1].activo = d.activo
            /\ (D # {} /\ ~carga.fallas) => ubic # <<>>]_vars

(* the latest event is not the one inserted last *)
C13_Testigo ==
  \E w \in Workers :
    /\ req[w].pc = "done" /\ req[w].op = "obtener_ubicacion"
    /\ req[w].resp.code = 200 /\ req[w].resp.ultima_ubicacion # <<>>
    /\ Len(tracking) = 2
    /\ tracking[1].orden_id = req[w].oid /\ tracking[2].orden_id = req[w].oid
    /\ tracking[1].timestamp > tracking[2].timestamp
    /\ tracking[1].ubicacion.coordinates # tracking[2].ubicacion.coordinates
    /\ req[w].resp.ultima_ubicacion[1].longitud = tracking[1].ubicacion.coordinates[1]
    /\ req[w].resp.ultima_ubicacion[1].latitud = tracking[1].ubicacion.coordinates[2]

(* C14: coordinate round trip.  A registration with (latitud, longitud)     *)
(* stores an event that reads back, as a location, with the same latitud    *)
(* and longitud; and the location the federated read returns is that        *)
(* reading of the latest event of the order.                                *)
C14_CoordenadasIdaYVuelta ==
  [][/\ \A w \in Workers :
          (Termina(w, "tracking_insert") /\ req'[w].resp.code = 200) =>
            /\ Len(tracking') = Len(tracking) + 1
            /\ LET d == tracking'[Len(tracking')]
               IN /\ d.orden_id = req[w].oid
                  /\ d.id = req'[w].resp.tracking_id
                  /\ ultima_ubicacion(d).latitud = req[w].punto.latitud
                  /\ ultima_ubicacion(d).longitud = req[w].punto.longitud
     /\ \A w \in Workers :
          ( /\ Termina(w, "ubicacion_tracking") /\ req'[w].resp.code = 200
            /\ req'[w].resp.ultima_ubicacion # <<>> ) =>
            \E d \in DocsDe(tracking, req[w].oid) :
              /\ \A e \in DocsDe(tracking, req[w].oid) : e.timestamp <= d.timestamp
              /\ req'[w].resp.ultima_ubicacion[1] = ultima_ubicacion(d)
     /\ \A i \in DOMAIN tracking, j \in DOMAIN tracking' :
          tracking[i].id = tracking'[j].id =>
            tracking[i].ubicacion = tracking'[j].ubicacion]_vars

(* the only event of the order was registered at latitud 4, longitud -74 *)
C14_Testigo ==
  \E w \in Workers :
    /\ req[w].pc = "done" /\ req[w].op = "obtener_ubicacion"
    /\ req[w].resp.code = 200 /\ req[w].resp.ultima_ubicacion # <<>>
    /\ req[w].resp.ultima_ubicacion[1].latitud = 4
    /\ req[w].resp.ultima_ubicacion[1].longitud = -74
    /\ Cardinality(DocsDe(tracking, req[w].oid)) = 1
    /\ \A d \in DocsDe(tracking, req[w].oid) : d.ubicacion.coordinates = <<-74, 4>>

ExisteOrden(ords, id) == \E o \in ords : o.id = id

(* C15: a registration for an order id that has no row ends with 404 (or    *)
(* with the 500 of a failed existence check) and inserts nothing, and every *)
(* stored event references an order that has a row.                         *)
C15_TrackingSoloDeOrdenesExistentes ==
  [][/\ \A w \in Workers :
          (Recibe(w, "registrar_tracking") /\ ~ExisteOrden(ordenes, req'[w].oid)) =>
            /\ req'[w].pc = "done"
            /\ req'[w].resp.code \in {404, 500}
            /\ req'[w].resp.code = 500 => carga.fallas
            /\ tracking' = tracking
     /\ \A w \in Workers :
          req'[w].pc = "tracking_insert" => ExisteOrden(ordenes', req'[w].oid)
     /\ \A i \in DOMAIN tracking' : ExisteOrden(ordenes', tracking'[i].orden_id)]_vars

C15_Testigo ==
  \E w \in Workers :
    /\ req[w].pc = "done" /\ req[w].op = "registrar_tracking"
    /\ req[w].resp.code = 404
    /\ ~ExisteOrden(ordenes, req[w].oid)
    /\ tracking # <<>>
    /\ \A i \in DOMAIN tracking : tracking[i].orden_id # req[w].oid

(* C16: a status update with a valid status for an order id that has no row *)
(* ends with 404 (or with the 500 of a failed UPDATE), never goes on to the *)
(* synchronization, and leaves both stores as they were.                    *)
C16_OrdenInexistente ==
  [][\A w \in Workers :
       (Paso(w, "estado_update") /\ ~ExisteOrden(ordenes, req[w].oid)) =>
         /\ req[w].estado \in CincoEstados
         /\ req'[w].pc = "done"
         /\ req'[w].resp.code \in {404, 500}
         /\ req'[w].resp.code = 500 => carga.fallas
         /\ req'[w].conn # "open" \/ req'[w].resp.code = 500
         /\ ledger' = ledger
         /\ mongo' = mongo]_vars

C16_Testigo ==
  \E w \in Workers :
    /\ req[w].pc = "done" /\ req[w].op = "actualizar_estado"
    /\ req[w].estado = "Entregado" /\ req[w].resp.code = 404
    /\ ~ExisteOrden(ordenes, req[w].oid)
    /\ ordenes # {}
    /\ \E i \in DOMAIN tracking : tracking[i].activo

(* C17: whatever the current status s of an existing order and whatever the *)
(* valid status t requested, the UPDATE step succeeds and leaves the order  *)
(* in t (unless the store itself fails).                                    *)
C17_TransicionesLibres ==
  [][\A w \in Workers :
       (Paso(w, "estado_update") /\ ExisteOrden(ordenes, req[w].oid)) =>
         \/ /\ carga.fallas
            /\ req'[w].pc = "done" /\ req'[w].resp.code = 500
            /\ ordenes' = ordenes
         \/ /\ ExitoUpdate(w)
            /\ \E o \in ordenes' : o.id = req[w].oid /\ o.estado = req[w].estado]_vars

(* An order with synchronized events was Entregado; here it is En Tránsito  *)
(* again, by a request that has just been answered 200.                     *)
C17_Testigo ==
  \E w \in Workers :
    /\ req[w].pc = "done" /\ req[w].op = "actualizar_estado"
    /\ req[w].resp.code = 200 /\ req[w].estado = "En Tránsito"
    /\ \E o \in ordenes : o.id = req[w].oid /\ o.estado = "En Tránsito"
    /\ \E d \in DocsDe(tracking, req[w].oid) : d.fecha_sincronizacion # <<>>

(* C18: the order a successful create_order commits has the status          *)
(* Pendiente, and its last-updated time is its creation time; no row enters *)
(* the table in any other way.                                              *)
C18_EstadoInicialPendiente ==
  [][/\ \A w \in Workers :
          (Termina(w, "crear_commit") /\ req'[w].resp.code = 200) =>
            \E o \in ordenes' :
              /\ o.id = req'[w].resp.orden_id
              /\ ~ExisteOrden(ordenes, o.id)
              /\ o.estado = "Pendiente"
              /\ o.fecha_actualizacion = o.fecha_creacion
     /\ \A o \in ordenes' :
          ~ExisteOrden(ordenes, o.id) =>
            /\ o.estado = "Pendiente"
            /\ \E w \in Workers : Termina(w, "crear_commit") /\ req'[w].resp.orden_id = o.id]_vars

C18_Testigo ==
  \E w \in Workers :
    /\ req[w].pc = "done" /\ req[w].op = "crear_orden" /\ req[w].resp.code = 200
    /\ \E o \in ordenes : o.id = req[w].resp.orden_id /\ o.estado = "Pendiente"
    /\ \E o \in ordenes : o.id # req[w].resp.orden_id /\ o.estado = "Entregado"

(* C19: a proximity query with latitud in [-90, 90], longitud in            *)
(* [-180, 180] and a radius above 0 goes on to the tracking store; any      *)
(* other ends at once with a 422 client error, no store queried and both    *)
(* stores unchanged.  The limits themselves are accepted, radius 0 is not.  *)
C19_ValidacionDeConsulta ==
  [][\A w \in Workers :
       Recibe(w, "busqueda_cercana") =>
         LET p == req'[w].punto
             radio == req'[w].radio
         IN IF /\ p.latitud \in -90..90 /\ p.longitud \in -180..180 /\ radio \in 1..1000
            THEN req'[w].pc = "cercana_mongo" /\ req'[w].resp = NoResp
            ELSE /\ req'[w].pc = "done"
                 /\ req'[w].resp.code = 422
                 /\ req'[w].conn = "none" /\ req'[w].docs = <<>>
                 /\ ledger' = ledger
                 /\ mongo' = mongo]_vars

(* one query at the limits has found an event, another with radius 0 at the *)
(* same centre was rejected                                                 *)
C19_Testigo ==
  \E w, v \in Workers :
    /\ req[w].pc = "done" /\ req[w].op = "busqueda_cercana"
    /\ req[w].punto = Punto(90, 180) /\ req[w].resp.code = 200
    /\ req[w].resp.resultados # <<>>
    /\ req[v].pc = "done" /\ req[v].op = "busqueda_cercana"
    /\ req[v].punto = Punto(90, 180) /\ req[v].radio = 0
    /\ req[v].resp.code = 422

Dentro(doc, r) ==
  KmPorGrado * KmPorGrado
      * distancia2(doc.ubicacion.coordinates, <<r.punto.longitud, r.punto.latitud>>)
    <= (r.radio * r.radio) \div (1000 * 1000)

Resumen(ords, id) ==
  IF ExisteOrden(ords, id)
  THEN LET o == CHOOSE x \in ords : x.id = id
       IN <<[descripcion |-> o.descripcion, estado |-> o.estado,
             direccion_destino |-> o.direccion_destino]>>
  ELSE <<>>

(* C20: the tracking query yields each event that is active and within the  *)
(* radius exactly once; the response has one result per event it yielded,   *)
(* in the same order, each with the coordinates of its event and with the   *)
(* summary of its order's row, or with the empty summary when the order has *)
(* no row; only a failing store makes the call fail.                        *)
C20_UnResultadoPorEvento ==
  [][/\ \A w \in Workers :
          Paso(w, "cercana_mongo") =>
            \/ carga.fallas /\ req'[w].pc = "done" /\ req'[w].resp.code = 500
            \/ LET I == {i \in DOMAIN tracking :
                           tracking[i].activo /\ Dentro(tracking[i], req[w])}
                   docs == req'[w].docs
               IN /\ Len(docs) = Cardinality(I)
                  /\ \A i \in I : \E k \in DOMAIN docs : docs[k] = tracking[i]
                  /\ IF I = {}
                     THEN /\ req'[w].pc = "done" /\ req'[w].resp.code = 200
                          /\ req'[w].resp.resultados = <<>>
                          /\ req'[w].resp.ordenes_encontradas = 0
                     ELSE req'[w].pc = "cercana_pg"
     /\ \A w \in Workers :
          Paso(w, "cercana_pg") =>
            /\ req'[w].pc = "done"
            /\ \/ carga.fallas /\ req'[w].resp.code = 500
               \/ LET docs == req[w].docs
                      res == req'[w].resp.resultados
                  IN /\ req'[w].resp.code = 200
                     /\ req'[w].resp.ordenes_encontradas = Len(docs)
                     /\ Len(res) = Len(docs)
                     /\ \A k \in DOMAIN docs :
                          /\ res[k].orden_id = docs[k].orden_id
                          /\ res[k].ubicacion.longitud = docs[k].ubicacion.coordinates[1]
                          /\ res[k].ubicacion.latitud = docs[k].ubicacion.coordinates[2]
                          /\ res[k].timestamp = docs[k].timestamp
                          /\ res[k].orden_info = Resumen(ordenes, docs[k].orden_id)]_vars

(* three results: two events of one order with its summary, and the event   *)
(* of an order without a row, with the empty summary                        *)
C20_Testigo ==
  \E w \in Workers :
    /\ req[w].pc = "done" /\ req[w].op = "busqueda_cercana" /\ req[w].resp.code = 200
    /\ LET res == req[w].resp.resultados
       IN /\ Len(res) = 3
          /\ \E a, b, c \in DOMAIN res :
               /\ a # b
               /\ res[a].orden_id = res[b].orden_id
               /\ res[a].orden_info # <<>> /\ res[b].orden_info # <<>>
               /\ res[c].orden_id = OrdenHuerfana
               /\ res[c].orden_info = <<>>

NumDocs(docs, id) == Cardinality({i \in DOMAIN docs : docs[i].orden_id = id})

(* C21: DELETE /tracking/{orden_id} removes every event of that order and   *)
(* keeps every event of the other orders, leaves the ledger as it was, and  *)
(* answers by the events alone, whether or not the order has a row: 404     *)
(* with the store unchanged exactly when the order has no event, otherwise  *)
(* 200 with the number of events removed.                                   *)
C21_BorradoSoloDeLaOrden ==
  [][\A w \in Workers :
       Recibe(w, "eliminar_tracking") =>
         LET id == req'[w].oid
             n == NumDocs(tracking, id)
             code == req'[w].resp.code
         IN /\ ledger' = ledger
            /\ \/ code = 500 /\ carga.fallas /\ tracking' = tracking
               \/ /\ code \in {200, 404}
                  /\ code = 404 <=> n = 0
                  /\ code = 404 => tracking' = tracking
                  /\ code = 200 => req'[w].resp.registros_eliminados = n
                  /\ NumDocs(tracking', id) = 0
                  /\ Len(tracking') = Len(tracking) - n
                  /\ \A i \in DOMAIN tracking :
                       tracking[i].orden_id # id =>
                         \E j \in DOMAIN tracking' : tracking'[j] = tracking[i]]_vars

C21_Testigo ==
  \E w \in Workers :
    /\ req[w].pc = "done" /\ req[w].op = "eliminar_tracking"
    /\ req[w].resp.code = 200 /\ req[w].resp.registros_eliminados = 1
    /\ req[w].oid = OrdenHuerfana /\ ~ExisteOrden(ordenes, req[w].oid)
    /\ \E o \in ordenes : NumDocs(tracking, o.id) = MaxTracking

(* C22: when POST /ordenes or PUT /ordenes/{id}/estado has answered, on     *)
(* success or on error, the relational connection the handler acquired has  *)
(* been released: none stays open after the call.                           *)
C22_ConexionLiberada ==
  \A w \in Workers :
    (req[w].pc = "done" /\ req[w].op \in {"crear_orden", "actualizar_estado"}) =>
      req[w].conn # "open"

(* C23: a status update to a status other than Entregado leaves the         *)
(* tracking store as it was at every step of the call: no event is added,   *)
(* removed or modified; and its successful response carries no              *)
(* synchronization result.                                                  *)
C23_OtroEstadoNoTocaTracking ==
  [][\A w \in Workers :
       (req'[w] # req[w] /\ req'[w].op = "actualizar_estado"
          /\ req'[w].estado # "Entregado") =>
         /\ mongo' = mongo
         /\ (req'[w].pc = "done" /\ req'[w].resp.code = 200) =>
              req'[w].resp.sincronizacion = <<>>]_vars

C23_Testigo ==
  \E w \in Workers :
    /\ req[w].pc = "done" /\ req[w].op = "actualizar_estado"
    /\ req[w].resp.code = 200 /\ req[w].estado = "En Tránsito"
    /\ \E o \in ordenes : o.id = req[w].oid /\ o.estado = "En Tránsito"
    /\ Cardinality(Activos(tracking, req[w].oid)) = MaxTracking

EntregaHecha(r, id) ==
  /\ r.pc = "done" /\ r.op = "actualizar_estado" /\ r.oid = id
  /\ r.estado = "Entregado" /\ SyncSinError(r.resp)

RegistroHecho(r, id) ==
  /\ r.pc = "done" /\ r.op = "registrar_tracking" /\ r.oid = id
  /\ r.resp.code = 200

(* C24: when a registration of tracking for an order and a delivery of the  *)
(* same order have both answered with success, every event of the order is  *)
(* inactive.                                                                *)
C24_RegistroYEntregaEnCarrera ==
  \A w \in Workers : \A v \in Workers \ {w} : \A id \in 1..MaxOrdenes :
    (RegistroHecho(req[w], id) /\ EntregaHecha(req[v], id)) =>
      Activos(tracking, id) = {}

(* C25: a registration for an order that has a row is accepted whatever the *)
(* status of the order, its insert appends one event with activo true and   *)
(* no synchronization time, and a proximity query yields every active event *)
(* within its radius, one result each, whatever the status of the order.    *)
C25_RegistroEnCualquierEstado ==
  [][/\ \A w \in Workers :
          (Recibe(w, "registrar_tracking") /\ ExisteOrden(ordenes, req'[w].oid)
             /\ req'[w].resp.code # 500) =>
            req'[w].pc = "tracking_insert"
     /\ \A w \in Workers :
          (Termina(w, "tracking_insert") /\ req'[w].resp.code = 200) =>
            /\ Len(tracking') = Len(tracking) + 1
            /\ SubSeq(tracking', 1, Len(tracking)) = tracking
            /\ LET d == tracking'[Len(tracking')]
               IN /\ d.orden_id = req[w].oid /\ d.activo
                  /\ d.fecha_sincronizacion = <<>>
                  /\ d.id = req'[w].resp.tracking_id
     /\ \A w \in Workers :
          (Paso(w, "cercana_mongo") /\ req'[w].resp.code # 500) =>
            \A i \in DOMAIN tracking :
              (tracking[i].activo /\ Dentro(tracking[i], req[w])) =>
                /\ req'[w].pc = "cercana_pg"
                /\ \E j \in DOMAIN req'[w].docs : req'[w].docs[j] = tracking[i]
     /\ \A w \in Workers :
          (Termina(w, "cercana_pg") /\ req'[w].resp.code = 200) =>
            /\ Len(req'[w].resp.resultados) = Len(req[w].docs)
            /\ \A j \in DOMAIN req[w].docs :
                 /\ req'[w].resp.resultados[j].orden_id = req[w].docs[j].orden_id
                 /\ req'[w].resp.resultados[j].timestamp = req[w].docs[j].timestamp]_vars

(* a sequential run without failures: the active event of a delivered order *)
(* was registered after the delivery                                        *)
C25_Testigo ==
  /\ carga.concurrentes = 1 /\ ~carga.fallas
  /\ \E w \in Workers :
       /\ req[w].pc = "done" /\ req[w].op = "busqueda_cercana"
       /\ req[w].resp.code = 200
       /\ \E j \in DOMAIN req[w].resp.resultados :
            LET res == req[w].resp.resultados[j]
            IN /\ res.orden_info # <<>> /\ res.orden_info[1].estado = "Entregado"
               /\ \E o \in ordenes : o.id = res.orden_id /\ o.estado = "Entregado"
               /\ \E i \in Activos(tracking, res.orden_id) :
                    tracking[i].timestamp = res.timestamp

(* C26: no step turns the activo flag of a stored event from false to true: *)
(* an inactive event is, after any step, either still stored and inactive   *)
(* or deleted; in particular a status update away from Entregado leaves the *)
(* events of the order inactive.                                            *)
C26_ActivoMonotono ==
  [][\A i \in DOMAIN tracking :
       ~tracking[i].activo =>
         \A j \in DOMAIN tracking' :
           tracking'[j].id = tracking[i].id => ~tracking'[j].activo]_vars

C26_Testigo ==
  \E w \in Workers :
    /\ req[w].pc = "done" /\ req[w].op = "actualizar_estado"
    /\ req[w].resp.code = 200 /\ req[w].estado # "Entregado"
    /\ \E o \in ordenes : o.id = req[w].oid /\ o.estado = req[w].estado
    /\ \E d \in DocsDe(tracking, req[w].oid) :
         ~d.activo /\ d.fecha_sincronizacion # <<>>

(* C27: the federated read looks for the latest event of the order among    *)
(* all its events, active or not: while the tracking store answers, an      *)
(* order with events gets a location even when all of them are inactive,    *)
(* and the location reports the activo flag of the event it was taken from. *)
C27_UbicacionSinFiltroDeActivo ==
  [][\A w \in Workers :
       (Termina(w, "ubicacion_tracking") /\ req'[w].resp.code = 200) =>
         LET ubic == req'[w].resp.ultima_ubicacion
             D == DocsDe(tracking, req[w].oid)
         IN /\ (D # {} /\ ~carga.fallas) => ubic # <<>>
            /\ ubic # <<>> =>
                 \E d \in D :
                   /\ \A e \in D : e.timestamp <= d.timestamp
                   /\ ubic[1].timestamp = d.timestamp
                   /\ ubic[1].activo = d.activo
                   /\ ubic[1].latitud = d.ubicacion.coordinates[2]
                   /\ ubic[1].longitud = d.ubicacion.coordinates[1]]_vars

C27_Testigo ==
  \E w \in Workers :
    /\ req[w].pc = "done" /\ req[w].op = "obtener_ubicacion"
    /\ req[w].resp.code = 200
    /\ req[w].resp.ultima_ubicacion # <<>>
    /\ req[w].resp.ultima_ubicacion[1].activo = FALSE
    /\ req[w].resp.orden # <<>> /\ req[w].resp.orden[1].estado = "Entregado"
    /\ DocsDe(tracking, req[w].oid) # {}
    /\ Activos(tracking, req[w].oid) = {}

EstadoDe(ords, id) == {o.estado : o \in {x \in ords : x.id = id}}

(* C29: a delivery of an order that is already Entregado succeeds again and *)
(* changes no status in the ledger; its synchronization, applied to events  *)
(* that are already inactive, changes no activo flag and adds or removes no *)
(* event.                                                                   *)
C29_EntregaIdempotente ==
  [][\A w \in Workers :
       /\ (Paso(w, "estado_update") /\ req[w].estado = "Entregado"
             /\ EstadoDe(ordenes, req[w].oid) = {"Entregado"}
             /\ req'[w].resp.code # 500) =>
            /\ req'[w].pc = "estado_sync"
            /\ \A id \in 1..MaxOrdenes : EstadoDe(ordenes', id) = EstadoDe(ordenes, id)
       /\ (Paso(w, "estado_sync") /\ Activos(tracking, req[w].oid) = {}) =>
            /\ req'[w].pc = "done" /\ req'[w].resp.code = 200
            /\ EstadoDe(ordenes', req[w].oid) = EstadoDe(ordenes, req[w].oid)
            /\ Len(tracking') = Len(tracking)
            /\ \A i \in DOMAIN tracking :
                 /\ tracking'[i].id = tracking[i].id
                 /\ tracking'[i].activo = tracking[i].activo]_vars

(* a sequential run whose only status is Entregado: the delivery found the  *)
(* events of the order already deactivated by an earlier delivery           *)
C29_Testigo ==
  /\ carga.concurrentes = 1 /\ carga.estados = {"Entregado"}
  /\ \E w \in Workers :
       /\ req[w].pc = "done" /\ req[w].op = "actualizar_estado"
       /\ SyncSinError(req[w].resp)
       /\ req[w].resp.sincronizacion[1].documentos_actualizados = 0
       /\ EstadoDe(ordenes, req[w].oid) = {"Entregado"}
       /\ DocsDe(tracking, req[w].oid) # {}
       /\ Activos(tracking, req[w].oid) = {}

(* C30: in every state, whatever creations have succeeded, failed or are    *)
(* in flight, the committed tables are consistent: the cliente_id of every  *)
(* order is the id of a customer row, and every customer row is referenced  *)
(* by at least one order.                                                   *)
C30_ClienteYOrdenJuntos ==
  /\ \A o \in ordenes : \E c \in clientes : c.id = o.cliente_id
  /\ \A c \in clientes : \E o \in ordenes : o.cliente_id = c.id

(* a sequential run, where no insert meets a duplicate email: the gap in    *)
(* the customer ids is a customer insert that was rolled back               *)
C30_Testigo ==
  /\ carga.concurrentes = 1
  /\ \A w \in Workers : Libre(w)
  /\ clientes # {} /\ ordenes # {}
  /\ clientes_id_seq > Cardinality(clientes)
  /\ \E w \in Workers :
       /\ req[w].pc = "done" /\ req[w].op = "crear_orden"
       /\ req[w].resp.code = 200 /\ ~req[w].resp.cliente_existente
====
